---- MODULE Spec2Model ----
(***************************************************************************)
(* Model of the binator network decoders: ethernet_frame, ipv4_header,     *)
(* ipv6_header, tcp_header, tcp_options, udp_header and the textual        *)
(* ipv4_address / ipv6_address grammars.                                   *)
(*                                                                         *)
(* A stream is a sequence of octets (0..255); a textual stream is the      *)
(* sequence of the ASCII codes of its characters.  Every parser is an      *)
(* operator from a stream to a Parsed value:                               *)
(*   Success(token, stream)   the token and the remaining stream           *)
(*   Failure(atom)            the parser did not match (recoverable)       *)
(*   Error(atom)              fatal, never absorbed by a combinator        *)
(***************************************************************************)
EXTENDS Integers, Sequences, FiniteSets, TLC

VARIABLES input, calls

vars == <<input, calls>>

(***************************************************************************)
(* Bounds of the explored inputs.                                          *)
(***************************************************************************)
MaxEthKey == 6
MaxIpv4Len == 61
MaxIpv6Len == 41
MaxTcpLen == 61
MaxUdpLen == 9
MaxOptLen == 4
MaxChunks == 2
MaxTextLen == 5

MaxH16Len == 5

(***************************************************************************)
(* Parsed, atoms and Option.                                               *)
(***************************************************************************)
NoValue == -1

Atom(tag, value) == [tag |-> tag, value |-> value]

Success(token, stream) == [kind |-> "Success", token |-> token, stream |-> stream]

Failure(atom) == [kind |-> "Failure", atom |-> atom]

Error(atom) == [kind |-> "Error", atom |-> atom]

IsSuccess(r) == r.kind = "Success"

None == [some |-> FALSE, value |-> NoValue]

Some(v) == [some |-> TRUE, value |-> v]

Drop(s, n) == SubSeq(s, n + 1, Len(s))

Take(s, n) == SubSeq(s, 1, n)

(***************************************************************************)
(* The combinators of the parsing substrate the decoders are built from.   *)
(***************************************************************************)
\* e is evaluated once and F applied to its value
Bind(e, F(_)) == CHOOSE v \in {F(x) : x \in {e}} : TRUE

\* `let Success { token, stream } = parser.parse(stream)?`, and the members
\* of a tuple parser: what follows runs on a Success, anything else is
\* returned as it is
Try(e, F(_)) == Bind(e, LAMBDA r : IF IsSuccess(r) THEN F(r) ELSE r)

\* parser.map(f)
map(e, F(_)) == Try(e, LAMBDA r : Success(F(r.token), r.stream))

\* first.or(second), and one step of the array of alternatives: the second
\* parser is tried on the same stream only when the first is a Failure
or(first, second) == Bind(first, LAMBDA r : IF r.kind = "Failure" THEN second ELSE r)

\* all: the rest of the stream as a span
all(s) == Success(s, <<>>)

\* any / octet: one item, Failure at the end of the stream
octet(s) ==
  IF s = <<>> THEN Failure(Atom("EndOfStream", NoValue))
  ELSE Success(Head(s), Tail(s))

\* is(x): the next item when it equals x, Failure otherwise
is(x, s) ==
  IF s = <<>> THEN Failure(Atom("EndOfStream", NoValue))
  ELSE IF Head(s) = x THEN Success(x, Tail(s))
  ELSE Failure(Atom("Is", Head(s)))

\* parser.add_atom(|| atom): the atom is added to the context of a
\* Failure or Error, whose tier is kept
add_atom(e, atom) ==
  Bind(e, LAMBDA r : IF IsSuccess(r) THEN r ELSE [r EXCEPT !.atom = atom])

\* try_map(f) when f returns Err(context): the parse is aborted
try_map_err(atom) == Error(atom)

\* any.drop().fold_bounds(n, ..).span(): exactly n items as a span
span_n(n, s) ==
  IF Len(s) < n THEN Failure(Atom("EndOfStream", NoValue))
  ELSE Success(Take(s, n), Drop(s, n))

\* octet.fill::<N>(): an array of exactly n octets
fill(n, s) == span_n(n, s)

\* u16::from_be_bytes
u16_from_be_bytes(b) == b[1] * 256 + b[2]

u16_be(s) == map(fill(2, s), u16_from_be_bytes)

\* u32::from_be_bytes
u32_from_be_bytes(b) == ((b[1] * 256 + b[2]) * 256 + b[3]) * 256 + b[4]

u32_be(s) == map(fill(4, s), u32_from_be_bytes)

\* nbit(NBit::FOUR): one octet as (high 4 bits, low 4 bits)
nbit_four(s) == map(octet(s), LAMBDA b : <<b \div 16, b % 16>>)

\* nbit(NBit::FIVE): one octet as (high 3 bits, low 5 bits)
nbit_five(s) == map(octet(s), LAMBDA b : <<b \div 32, b % 32>>)

(***************************************************************************)
(* Ethernet (ethernet.rs, ether_type.rs)                                   *)
(***************************************************************************)
\* EtherType::VLAN
VLAN == 33024

\* octet.fill().map(u16::from_be_bytes).map(EtherType::new)
ether_type(s) == map(fill(2, s), u16_from_be_bytes)

\* a closure that never takes the VLAN branch
is_vlan_never(tmp_ether_type) == FALSE

\* the test of the closure given to ether_type.and_then
is_vlan(tmp_ether_type) == tmp_ether_type = VLAN

\* a VLAN branch that reads the real type right after the 0x8100 field
ethernet_vlan_no_tci(tmp_ether_type, s) ==
  IF tmp_ether_type = VLAN
  THEN Try(ether_type(s), LAMBDA et : Success(<<et.token, Some(0)>>, et.stream))
  ELSE Success(<<tmp_ether_type, None>>, s)

\* the closure given to ether_type.and_then in ethernet_frame
ethernet_vlan(tmp_ether_type, s) ==
  IF is_vlan(tmp_ether_type)
  THEN Try(u16_be(s), LAMBDA tci :
       Try(ether_type(tci.stream), LAMBDA et :
       Success(<<et.token, Some(tci.token)>>, et.stream)))
  ELSE Success(<<tmp_ether_type, None>>, s)

ethernet_frame(s) ==
  Try(fill(6, s), LAMBDA destination :
  Try(fill(6, destination.stream), LAMBDA source :
  Try(ether_type(source.stream), LAMBDA tmp :
  Try(ethernet_vlan(tmp.token, tmp.stream), LAMBDA r :
  Success([destination |-> destination.token,
           source |-> source.token,
           ether_type |-> r.token[1],
           tci |-> r.token[2]],
          r.stream)))))

(***************************************************************************)
(* IP protocol number (ip_protocol.rs)                                     *)
(***************************************************************************)
\* a resolution that keeps 7 bits of the code
ip_protocol_7_bits(s) == map(octet(s), LAMBDA b : b % 128)

\* octet.map(IPProtocol::new)
ip_protocol(s) == octet(s)

(***************************************************************************)
(* IPv4 (ipv4.rs)                                                          *)
(***************************************************************************)
\* a closure that checks the IHL only
ipv4_check_ihl_only(version, ihl, s) ==
  IF ihl < 5 THEN try_map_err(Atom("Ipv4Atom::IHL", ihl))
  ELSE Success(<<version, ihl>>, s)

\* a closure that checks the IHL before the version
ipv4_check_ihl_first(version, ihl, s) ==
  IF ihl < 5 THEN try_map_err(Atom("Ipv4Atom::IHL", ihl))
  ELSE IF version # 4 THEN try_map_err(Atom("Ipv4Atom::Version", version))
  ELSE Success(<<version, ihl>>, s)

\* the closure of try_map on (version, ihl)
ipv4_check(version, ihl, s) ==
  IF version # 4 THEN try_map_err(Atom("Ipv4Atom::Version", version))
  ELSE IF ihl < 5 THEN try_map_err(Atom("Ipv4Atom::IHL", ihl))
  ELSE Success(<<version, ihl>>, s)

\* nbit(NBit::FOUR).try_map(|(version, ihl)| ..)
ipv4_version_ihl(s) ==
  Try(nbit_four(s), LAMBDA r : ipv4_check(r.token[1], r.token[2], r.stream))

\* a split that gives five bits to the flags and three to the offset
ipv4_flags_fragment_five_three(s) ==
  Try(octet(s), LAMBDA a :
  Try(octet(a.stream), LAMBDA b :
  Success(<<a.token \div 8, u16_from_be_bytes(<<a.token % 8, b.token>>)>>,
          b.stream)))

\* nbit(NBit::FIVE).and(octet).map(..): (flags, fragment_offset)
ipv4_flags_fragment(s) ==
  Try(nbit_five(s), LAMBDA a :
  Try(octet(a.stream), LAMBDA b :
  Success(<<a.token[1], u16_from_be_bytes(<<a.token[2], b.token>>)>>, b.stream)))

\* an options length counted in 16-bit units
ipv4_options_len_halved(ihl) == (ihl - 5) * 2

\* usize::from(ihl - 5) * 4
ipv4_options_len(ihl) == (ihl - 5) * 4

\* an options span cut at the end of the stream
ipv4_options_span_short(ihl, s) ==
  IF Len(s) < ipv4_options_len(ihl) THEN Success(s, <<>>)
  ELSE span_n(ipv4_options_len(ihl), s)

\* any.drop().fold_bounds(usize::from(ihl - 5) * 4, ..).span()
ipv4_options_span(ihl, s) == span_n(ipv4_options_len(ihl), s)

ipv4_header(s) ==
  Try(ipv4_version_ihl(s), LAMBDA vi :
  Try(octet(vi.stream), LAMBDA tos :
  Try(u16_be(tos.stream), LAMBDA length :
  Try(u16_be(length.stream), LAMBDA id :
  Try(ipv4_flags_fragment(id.stream), LAMBDA ff :
  Try(octet(ff.stream), LAMBDA ttl :
  Try(ip_protocol(ttl.stream), LAMBDA protocol :
  Try(u16_be(protocol.stream), LAMBDA chksum :
  Try(fill(4, chksum.stream), LAMBDA source_addr :
  Try(fill(4, source_addr.stream), LAMBDA dest_addr :
  Try(ipv4_options_span(vi.token[2], dest_addr.stream), LAMBDA options :
  Success([version |-> vi.token[1], ihl |-> vi.token[2], tos |-> tos.token,
           length |-> length.token, id |-> id.token,
           flags |-> ff.token[1], fragment_offset |-> ff.token[2],
           ttl |-> ttl.token, protocol |-> protocol.token,
           chksum |-> chksum.token, source_addr |-> source_addr.token,
           dest_addr |-> dest_addr.token, options |-> options.token],
          options.stream))))))))))))

(***************************************************************************)
(* IPv6 (ipv6.rs)                                                          *)
(***************************************************************************)
\* the first octet split without a test of the version
ipv6_version_tc_any(s) == nbit_four(s)

\* nbit(NBit::FOUR).try_map(|(version, tc_0)| ..)
ipv6_version_tc(s) ==
  Try(nbit_four(s), LAMBDA r :
    IF r.token[1] = 6 THEN r
    ELSE try_map_err(Atom("Ipv6Atom::Version", r.token[1])))

\* u8 addition as the code writes it: a result above 255 does not fit
u8_add(a, b) == (a + b) % 256

\* a traffic class whose high nibble is shifted by 4
ipv6_ds_shift_4(tc_0, tc_1) == u8_add((tc_0 * 16) % 256, tc_1 \div 4)

\* ds: (tc_0 << 2) + (tc_1 >> 2)
ipv6_ds(tc_0, tc_1) == u8_add((tc_0 * 4) % 256, tc_1 \div 4)

\* ecn: tc_1 & 0b11
ipv6_ecn(tc_1) == tc_1 % 4

ipv6_header(s) ==
  Try(ipv6_version_tc(s), LAMBDA vt :
  Try(nbit_four(vt.stream), LAMBDA n :
  Try(fill(2, n.stream), LAMBDA fl :
  Try(u16_be(fl.stream), LAMBDA length :
  Try(ip_protocol(length.stream), LAMBDA next_header :
  Try(octet(next_header.stream), LAMBDA hop_limit :
  Try(fill(16, hop_limit.stream), LAMBDA source_addr :
  Try(fill(16, source_addr.stream), LAMBDA dest_addr :
  Success([version |-> vt.token[1],
           ds |-> ipv6_ds(vt.token[2], n.token[1]),
           ecn |-> ipv6_ecn(n.token[1]),
           flow_label |->
             u32_from_be_bytes(<<0, n.token[2], fl.token[1], fl.token[2]>>),
           length |-> length.token,
           next_header |-> next_header.token, hop_limit |-> hop_limit.token,
           source_addr |-> source_addr.token, dest_addr |-> dest_addr.token],
          dest_addr.stream)))))))))

(***************************************************************************)
(* UDP (udp.rs)                                                            *)
(***************************************************************************)
\* a header of three 16-bit fields
udp_header_no_checksum(s) ==
  Try(u16_be(s), LAMBDA source_port :
  Try(u16_be(source_port.stream), LAMBDA dest_port :
  Try(u16_be(dest_port.stream), LAMBDA length :
  Success([source_port |-> source_port.token, dest_port |-> dest_port.token,
           length |-> length.token, checksum |-> 0],
          length.stream))))

\* a header refused when its length field exceeds the data that follow
udp_header_checked_length(s) ==
  Try(u16_be(s), LAMBDA source_port :
  Try(u16_be(source_port.stream), LAMBDA dest_port :
  Try(u16_be(dest_port.stream), LAMBDA length :
  Try(u16_be(length.stream), LAMBDA checksum :
    IF length.token > 8 + Len(checksum.stream)
    THEN Failure(Atom("Length", length.token))
    ELSE Success([source_port |-> source_port.token,
                  dest_port |-> dest_port.token,
                  length |-> length.token, checksum |-> checksum.token],
                 checksum.stream)))))

udp_header(s) ==
  Try(u16_be(s), LAMBDA source_port :
  Try(u16_be(source_port.stream), LAMBDA dest_port :
  Try(u16_be(dest_port.stream), LAMBDA length :
  Try(u16_be(length.stream), LAMBDA checksum :
  Success([source_port |-> source_port.token, dest_port |-> dest_port.token,
           length |-> length.token, checksum |-> checksum.token],
          checksum.stream)))))

(***************************************************************************)
(* TCP header (tcp.rs)                                                     *)
(***************************************************************************)
\* TcpFlags::get_data_offset: (self.raw >> 12) as u8
get_data_offset(raw) == raw \div 4096

\* tcp_flags accepting a data offset of 4
data_offset_ok_from_4(raw) == get_data_offset(raw) >= 4

\* the test of tcp_flags' try_map closure
data_offset_ok(raw) == get_data_offset(raw) >= 5

\* u16_be.map(TcpFlags::from).try_map(..)
tcp_flags(s) ==
  Try(u16_be(s), LAMBDA r :
    IF data_offset_ok(r.token) THEN r
    ELSE try_map_err(Atom("TcpAtom::DataOffSet", NoValue)))

\* an options length counted in 32-bit words
tcp_options_len_words(raw) == get_data_offset(raw) - 5

\* (usize::from(flags.get_data_offset()) - 5) * 4
tcp_options_len(raw) == (get_data_offset(raw) - 5) * 4

\* an options span cut at the end of the stream
tcp_options_span_short(raw, s) ==
  IF tcp_options_len(raw) < 0 THEN [kind |-> "Underflow"]
  ELSE IF Len(s) < tcp_options_len(raw) THEN Success(s, <<>>)
  ELSE span_n(tcp_options_len(raw), s)

\* fold_bounds(n, ..).span() of tcp_header; the usize subtraction above
\* underflows for a data offset below 5
tcp_options_span(raw, s) ==
  IF tcp_options_len(raw) < 0 THEN [kind |-> "Underflow"]
  ELSE span_n(tcp_options_len(raw), s)

tcp_header(s) ==
  Try(u16_be(s), LAMBDA source_port :
  Try(u16_be(source_port.stream), LAMBDA dest_port :
  Try(u32_be(dest_port.stream), LAMBDA sequence_no :
  Try(u32_be(sequence_no.stream), LAMBDA ack_no :
  Try(tcp_flags(ack_no.stream), LAMBDA flags :
  Try(u16_be(flags.stream), LAMBDA window :
  Try(u16_be(window.stream), LAMBDA checksum :
  Try(u16_be(checksum.stream), LAMBDA urgent_pointer :
  Try(tcp_options_span(flags.token, urgent_pointer.stream), LAMBDA options :
  Success([source_port |-> source_port.token, dest_port |-> dest_port.token,
           sequence_no |-> sequence_no.token, ack_no |-> ack_no.token,
           flags |-> flags.token, window |-> window.token,
           checksum |-> checksum.token, urgent_pointer |-> urgent_pointer.token,
           options |-> options.token],
          options.stream))))))))))

(***************************************************************************)
(* TCP options (tcp.rs)                                                    *)
(***************************************************************************)
noop(s) == Success([opt |-> "Noop"], s)

\* a maximum segment size of one octet
mss_one_octet(s) ==
  Try(add_atom(is(4, s), Atom("TcpAtom::MssLen", NoValue)), LAMBDA len :
  Try(octet(len.stream), LAMBDA v :
  Success([opt |-> "MaximumSegmentSize", value |-> v.token], v.stream)))

\* is(4).add_atom(|| TcpAtom::MssLen).drop_and(u16_be)
mss(s) ==
  Try(add_atom(is(4, s), Atom("TcpAtom::MssLen", NoValue)), LAMBDA len :
  Try(u16_be(len.stream), LAMBDA v :
  Success([opt |-> "MaximumSegmentSize", value |-> v.token], v.stream)))

\* is(3).add_atom(|| TcpAtom::WindowScaleLen).drop_and(octet)
window_scale(s) ==
  Try(add_atom(is(3, s), Atom("TcpAtom::WindowScaleLen", NoValue)), LAMBDA len :
  Try(octet(len.stream), LAMBDA v :
  Success([opt |-> "WindowScale", value |-> v.token], v.stream)))

\* is(2).add_atom(|| TcpAtom::SackPermittedLen)
sack_permitted(s) ==
  Try(add_atom(is(2, s), Atom("TcpAtom::SackPermittedLen", NoValue)), LAMBDA len :
  Success([opt |-> "SackPermitted"], len.stream))

\* u32_be.fill::<N>(): an array of exactly n big-endian u32 words
RECURSIVE u32_be_fill(_, _)
u32_be_fill(n, s) ==
  IF n = 0 THEN Success(<<>>, s)
  ELSE Try(u32_be(s), LAMBDA w :
       Try(u32_be_fill(n - 1, w.stream), LAMBDA rest :
       Success(<<w.token>> \o rest.token, rest.stream)))

\* the match of sack on the length octet: the words read, 0 for the
\* catch-all arm
sack_words(len) ==
  CASE len = 10 -> 2
    [] len = 18 -> 4
    [] len = 26 -> 6
    [] len = 34 -> 8
    [] OTHER -> 0

sack_variant(len) ==
  CASE len = 10 -> "A"
    [] len = 18 -> "B"
    [] len = 26 -> "C"
    [] len = 34 -> "D"
    [] OTHER -> "none"

\* the catch-all arm of sack
sack_len_failure(len) == Failure(Atom("TcpAtom::SackLen", len))

sack(s) ==
  Try(octet(s), LAMBDA len :
    IF sack_words(len.token) = 0 THEN sack_len_failure(len.token)
    ELSE Try(u32_be_fill(sack_words(len.token), len.stream), LAMBDA w :
         Success([opt |-> "Sack", variant |-> sack_variant(len.token),
                  words |-> w.token], w.stream)))

\* is(10).add_atom(|| TcpAtom::TimestampsLen).drop_and((u32_be, u32_be))
tipestamps(s) ==
  Try(add_atom(is(10, s), Atom("TcpAtom::TimestampsLen", NoValue)), LAMBDA len :
  Try(u32_be_fill(2, len.stream), LAMBDA v :
  Success([opt |-> "Timestamps", value |-> v.token], v.stream)))

\* an unknown option whose span is cut at the end of the stream
unknown_short_span(op, s) ==
  Try(octet(s), LAMBDA len :
  IF len.token <= Len(len.stream)
  THEN Success([opt |-> "Unknown", code |-> op,
                span |-> Take(len.stream, len.token)],
               Drop(len.stream, len.token))
  ELSE Success([opt |-> "Unknown", code |-> op, span |-> len.stream], <<>>))

\* Unknown::parse: a length octet, then that many items as a span
unknown(op, s) ==
  Try(octet(s), LAMBDA len :
  Try(span_n(len.token, len.stream), LAMBDA sp :
  Success([opt |-> "Unknown", code |-> op, span |-> sp.token], sp.stream)))

\* an end of option that ends the repetition instead of being an entry
end_of_option_stops(s) == Failure(Atom("TcpOption::EndOfOption", NoValue))

\* the arm 0 of tcp_option
end_of_option(s) == Success([opt |-> "EndOfOption"], s)

tcp_option(s) ==
  Try(octet(s), LAMBDA op :
    CASE op.token = 0 -> end_of_option(op.stream)
      [] op.token = 1 -> noop(op.stream)
      [] op.token = 2 -> mss(op.stream)
      [] op.token = 3 -> window_scale(op.stream)
      [] op.token = 4 -> sack_permitted(op.stream)
      [] op.token = 5 -> sack(op.stream)
      [] op.token = 8 -> tipestamps(op.stream)
      [] OTHER -> unknown(op.token, op.stream))

\* one step of parser.fold_bounds(.., Vec::new, Acc::acc) on the result r of
\* the parser: a Failure ends the repetition with the tokens accumulated and
\* the stream as it was before the failing attempt, an Error is returned
RECURSIVE fold_bounds_full(_, _)
fold_bounds_full(acc, s) ==
  Bind(tcp_option(s), LAMBDA r :
    CASE r.kind = "Success" -> fold_bounds_full(Append(acc, r.token), r.stream)
      [] r.kind = "Failure" -> Success(acc, s)
      [] OTHER -> r)

\* tcp_option.fold_bounds(.., Vec::new, Acc::acc)
tcp_options(s) == fold_bounds_full(<<>>, s)

(***************************************************************************)
(* Textual IPv4 address (ip_addr.rs).  Characters are ASCII codes.         *)
(***************************************************************************)
Chr(c) ==
  CASE c = "." -> 46
    [] c = ":" -> 58
    [] c = "0" -> 48
    [] c = "1" -> 49
    [] c = "2" -> 50
    [] c = "3" -> 51
    [] c = "4" -> 52
    [] c = "5" -> 53
    [] c = "6" -> 54
    [] c = "9" -> 57
    [] c = "f" -> 102
    [] c = "F" -> 70
    [] c = "x" -> 120

IsDigit(c) == c >= 48 /\ c <= 57

IsHexDigit(c) == IsDigit(c) \/ (c >= 65 /\ c <= 70) \/ (c >= 97 /\ c <= 102)

HexValue(c) ==
  IF IsDigit(c) THEN c - 48
  ELSE IF c >= 97 THEN c - 97 + 10
  ELSE c - 65 + 10

\* to_digit: one decimal digit as its value
to_digit(s) ==
  IF s = <<>> THEN Failure(Atom("EndOfStream", NoValue))
  ELSE IF IsDigit(Head(s)) THEN Success(Head(s) - 48, Tail(s))
  ELSE Failure(Atom("Digit", Head(s)))

\* an addition that wraps around instead of being checked
wrapping_octet(base, n, s) == Success((base + n) % 256, s)

\* u8::checked_add(base, n).ok_or_else(|| NotAnOctet) under try_map
checked_octet(base, n, s) ==
  IF base + n > 255 THEN try_map_err(Atom("IpAddrAtom::NotAnOctet", NoValue))
  ELSE Success(base + n, s)

\* "25" %x30-35
dec_octet_0(s) ==
  Try(is(Chr("2"), s), LAMBDA a :
  Try(is(Chr("5"), a.stream), LAMBDA b :
  Try(to_digit(b.stream), LAMBDA c :
  checked_octet(250, c.token, c.stream))))

\* "2" %x30-34 DIGIT
dec_octet_1(s) ==
  Try(is(Chr("2"), s), LAMBDA a :
  Try(to_digit(a.stream), LAMBDA b :
  Try(to_digit(b.stream), LAMBDA c :
  checked_octet(200, b.token * 10 + c.token, c.stream))))

\* "1" 2DIGIT
dec_octet_2(s) ==
  Try(is(Chr("1"), s), LAMBDA a :
  Try(to_digit(a.stream), LAMBDA b :
  Try(to_digit(b.stream), LAMBDA c :
  checked_octet(100, b.token * 10 + c.token, c.stream))))

\* a leading zero reported as a Failure
dec_octet_3_soft(s) ==
  Try(to_digit(s), LAMBDA a :
  Try(to_digit(a.stream), LAMBDA b :
    IF a.token = 0 THEN Failure(Atom("IpAddrAtom::LeadingZero", NoValue))
    ELSE Success(a.token * 10 + b.token, b.stream)))

\* %x31-39 DIGIT
dec_octet_3(s) ==
  Try(to_digit(s), LAMBDA a :
  Try(to_digit(a.stream), LAMBDA b :
    IF a.token = 0 THEN try_map_err(Atom("IpAddrAtom::LeadingZero", NoValue))
    ELSE Success(a.token * 10 + b.token, b.stream)))

\* DIGIT
dec_octet_4(s) == to_digit(s)

dec_octet(s) ==
  or(dec_octet_0(s), or(dec_octet_1(s), or(dec_octet_2(s),
     or(dec_octet_3(s), dec_octet_4(s)))))

\* the members is(b'.'), dec_octet of the tuple of ipv4_address
dot_dec_octet(s) == Try(is(Chr("."), s), LAMBDA d : dec_octet(d.stream))

\* a parser of three octets only
ipv4_address_three_octets(s) ==
  Try(dec_octet(s), LAMBDA a :
  Try(dot_dec_octet(a.stream), LAMBDA b :
  Try(dot_dec_octet(b.stream), LAMBDA c :
  Success(<<a.token, b.token, c.token, 0>>, c.stream))))

ipv4_address(s) ==
  Try(dec_octet(s), LAMBDA a :
  Try(dot_dec_octet(a.stream), LAMBDA b :
  Try(dot_dec_octet(b.stream), LAMBDA c :
  Try(dot_dec_octet(c.stream), LAMBDA d :
  Success(<<a.token, b.token, c.token, d.token>>, d.stream)))))

(***************************************************************************)
(* Textual IPv6 address (ip_addr.rs)                                       *)
(***************************************************************************)
\* the digits uint_radix(1..4, Radix::HEX) folds: at least 1, at most 4
H16MinDigits == 1

H16MaxDigits == 4

RECURSIVE uint_radix_hex(_, _, _)
uint_radix_hex(count, value, s) ==
  IF count < H16MaxDigits /\ s # <<>> /\ IsHexDigit(Head(s))
  THEN uint_radix_hex(count + 1, value * 16 + HexValue(Head(s)), Tail(s))
  ELSE IF count < H16MinDigits
       THEN Failure(Atom("IntRadixAtom", NoValue))
       ELSE Success(value, s)

\* the fold with the upper bound left out of the range
RECURSIVE uint_radix_hex_exclusive(_, _, _)
uint_radix_hex_exclusive(count, value, s) ==
  IF count < H16MaxDigits - 1 /\ s # <<>> /\ IsHexDigit(Head(s))
  THEN uint_radix_hex_exclusive(count + 1, value * 16 + HexValue(Head(s)), Tail(s))
  ELSE IF count < H16MinDigits
       THEN Failure(Atom("IntRadixAtom", NoValue))
       ELSE Success(value, s)

h16_exclusive(s) == uint_radix_hex_exclusive(0, 0, s)

\* h16 = 1*4HEXDIG
h16(s) == uint_radix_hex(0, 0, s)

\* h16 ":"
h16_colon(s) ==
  Try(h16(s), LAMBDA h :
  Try(is(Chr(":"), h.stream), LAMBDA c : Success(h.token, c.stream)))

\* ":" h16
colon_h16(s) == Try(is(Chr(":"), s), LAMBDA c : h16(c.stream))

\* "::"
double_colon(s) == Try(is(Chr(":"), s), LAMBDA a : is(Chr(":"), a.stream))

\* parser.opt() followed by unwrap_or(0): a Failure gives None (here 0) and
\* the stream untouched, an Error is returned
opt_or_zero(e, s) ==
  Bind(e, LAMBDA r : IF r.kind = "Failure" THEN Success(0, s) ELSE r)

\* ipv4.octets() as two 16-bit groups
ipv4_groups(o) == <<o[1] * 256 + o[2], o[3] * 256 + o[4]>>

\* ls32 = ( h16 ":" h16 ) / IPv4address
ls32(s) ==
  or(Try(h16(s), LAMBDA a :
     Try(colon_h16(a.stream), LAMBDA b :
     Success(<<a.token, b.token>>, b.stream))),
     map(ipv4_address(s), ipv4_groups))

\* n consecutive h16_colon members of a tuple parser
RECURSIVE h16_colons(_, _)
h16_colons(n, s) ==
  IF n = 0 THEN Success(<<>>, s)
  ELSE Try(h16_colon(s), LAMBDA r :
       Try(h16_colons(n - 1, r.stream), LAMBDA rest :
       Success(<<r.token>> \o rest.token, rest.stream)))

\* n consecutive colon_h16.opt() members of a tuple parser
RECURSIVE colon_h16_opts(_, _)
colon_h16_opts(n, s) ==
  IF n = 0 THEN Success(<<>>, s)
  ELSE Try(opt_or_zero(colon_h16(s), s), LAMBDA r :
       Try(colon_h16_opts(n - 1, r.stream), LAMBDA rest :
       Success(<<r.token>> \o rest.token, rest.stream)))

\* the members ( h16.opt(), nopt * colon_h16.opt(), double_colon ) of a
\* tuple, as the groups before the compression
ipv6_head(nopt, s) ==
  Try(opt_or_zero(h16(s), s), LAMBDA a :
  Try(colon_h16_opts(nopt, a.stream), LAMBDA b :
  Try(double_colon(b.stream), LAMBDA c :
  Success(<<a.token>> \o b.token, c.stream))))

\* the members ( n * h16_colon, ls32 ) of a tuple, as the groups they yield
ipv6_tail(n, s) ==
  Try(h16_colons(n, s), LAMBDA a :
  Try(ls32(a.stream), LAMBDA l :
  Success(a.token \o l.token, l.stream)))

\* [ *nopt( h16 ":" ) h16 ] "::" n( h16 ":" ) ls32
ipv6_compressed(nopt, n, s) ==
  Try(ipv6_head(nopt, s), LAMBDA h :
  Try(ipv6_tail(n, h.stream), LAMBDA t :
  Success(h.token \o <<0>> \o t.token, t.stream)))

ipv6_address_0(s) == ipv6_tail(6, s)

ipv6_address_1(s) ==
  Try(double_colon(s), LAMBDA c :
  Try(ipv6_tail(5, c.stream), LAMBDA t :
  Success(<<0>> \o t.token, t.stream)))

ipv6_address_2(s) == ipv6_compressed(0, 4, s)

ipv6_address_3(s) == ipv6_compressed(1, 3, s)

ipv6_address_4(s) == ipv6_compressed(2, 2, s)

ipv6_address_5(s) == ipv6_compressed(3, 1, s)

ipv6_address_6(s) == ipv6_compressed(4, 0, s)

ipv6_address_7(s) ==
  Try(ipv6_head(5, s), LAMBDA h :
  Try(h16(h.stream), LAMBDA l :
  Success(h.token \o <<0, l.token>>, l.stream)))

ipv6_address_8(s) ==
  Try(ipv6_head(6, s), LAMBDA h : Success(h.token \o <<0>>, h.stream))

ipv6_address(s) ==
  or(ipv6_address_0(s), or(ipv6_address_1(s), or(ipv6_address_2(s),
  or(ipv6_address_3(s), or(ipv6_address_4(s), or(ipv6_address_5(s),
  or(ipv6_address_6(s), or(ipv6_address_7(s), ipv6_address_8(s)))))))))

(***************************************************************************)
(* The reference the tests of ip_addr.rs compare with: Ipv4Addr::from_str  *)
(* and Ipv6Addr::from_str of the standard library.  A read is             *)
(* [ok, value, stream]; a failed read leaves the position untouched.       *)
(***************************************************************************)
RefNone == [ok |-> FALSE, value |-> NoValue, stream |-> <<>>]

RefSome(v, s) == [ok |-> TRUE, value |-> v, stream |-> s]

RefIsDigit(radix, c) == IF radix = 16 THEN IsHexDigit(c) ELSE IsDigit(c)

RECURSIVE RefDigits(_, _, _, _)
\* the digits at the head of s: <<count, value, rest>>
RefDigits(radix, count, value, s) ==
  IF s # <<>> /\ RefIsDigit(radix, Head(s)) /\ count <= 4
  THEN RefDigits(radix, count + 1, value * radix + HexValue(Head(s)), Tail(s))
  ELSE <<count, value, s>>

\* Parser::read_number(radix, Some(max_digits), allow_zero_prefix)
RefReadNumber(radix, max_digits, allow_zero_prefix, max_value, s) ==
  LET d == RefDigits(radix, 0, 0, s)
  IN IF d[1] = 0 \/ d[1] > max_digits \/ d[2] > max_value THEN RefNone
     ELSE IF ~allow_zero_prefix /\ Head(s) = 48 /\ d[1] > 1 THEN RefNone
     ELSE RefSome(d[2], d[3])

\* Parser::read_separator(sep, index, inner): the separator unless index = 0
RefSeparator(sep, index, s) ==
  IF index = 0 THEN RefSome(NoValue, s)
  ELSE IF s # <<>> /\ Head(s) = sep THEN RefSome(NoValue, Tail(s))
  ELSE RefNone

RECURSIVE RefIpv4Groups(_, _, _)
RefIpv4Groups(i, acc, s) ==
  IF i = 4 THEN RefSome(acc, s)
  ELSE LET sep == RefSeparator(Chr("."), i, s)
       IN IF ~sep.ok THEN RefNone
          ELSE LET n == RefReadNumber(10, 3, FALSE, 255, sep.stream)
               IN IF ~n.ok THEN RefNone
                  ELSE RefIpv4Groups(i + 1, Append(acc, n.value), n.stream)

\* Parser::read_ipv4_addr
RefReadIpv4(s) == RefIpv4Groups(0, <<>>, s)

\* the embedded IPv4 address read_groups tries at group i
RefGroupIpv4(i, s) ==
  LET sep == RefSeparator(Chr(":"), i, s)
  IN IF ~sep.ok THEN RefNone ELSE RefReadIpv4(sep.stream)

\* the h16 group read_groups reads at group i
RefGroupH16(i, s) ==
  LET sep == RefSeparator(Chr(":"), i, s)
  IN IF ~sep.ok THEN RefNone ELSE RefReadNumber(16, 4, TRUE, 65535, sep.stream)

RECURSIVE RefReadGroups(_, _, _, _)
\* read_groups of read_ipv6_addr: [groups, ipv4, stream]
RefReadGroups(limit, i, acc, s) ==
  IF i >= limit THEN [groups |-> acc, ipv4 |-> FALSE, stream |-> s]
  ELSE LET v4 == IF i < limit - 1 THEN RefGroupIpv4(i, s) ELSE RefNone
       IN IF v4.ok
          THEN [groups |-> acc \o <<v4.value[1] * 256 + v4.value[2],
                                    v4.value[3] * 256 + v4.value[4]>>,
                ipv4 |-> TRUE, stream |-> v4.stream]
          ELSE LET g == RefGroupH16(i, s)
               IN IF ~g.ok THEN [groups |-> acc, ipv4 |-> FALSE, stream |-> s]
                  ELSE RefReadGroups(limit, i + 1, Append(acc, g.value), g.stream)

Zeros(n) == [i \in 1..n |-> 0]

\* Parser::read_ipv6_addr
RefReadIpv6(s) ==
  LET head == RefReadGroups(8, 0, <<>>, s)
  IN IF Len(head.groups) = 8 THEN RefSome(head.groups, head.stream)
     ELSE IF head.ipv4 THEN RefNone
     ELSE LET c == double_colon(head.stream)
          IN IF ~IsSuccess(c) THEN RefNone
             ELSE LET tail == RefReadGroups(7 - Len(head.groups), 0, <<>>, c.stream)
                  IN RefSome(head.groups
                               \o Zeros(8 - Len(head.groups) - Len(tail.groups))
                               \o tail.groups,
                             tail.stream)

\* Parser::parse_with: the whole input must be consumed
RefFromStr(r) == IF r.ok /\ r.stream = <<>> THEN r ELSE RefNone

Ipv4Addr_from_str(s) == RefFromStr(RefReadIpv4(s))

Ipv6Addr_from_str(s) == RefFromStr(RefReadIpv6(s))

(***************************************************************************)
(* The inputs the decoders are applied to.                                 *)
(***************************************************************************)
SeqsUpTo(S, n) == UNION {[1..k -> S] : k \in 0..n}

RECURSIVE Concat(_)
Concat(ss) == IF ss = <<>> THEN <<>> ELSE Head(ss) \o Concat(Tail(ss))

\* filler octet at position i of a buffer (below 128, varying with i)
FillByte(i) == (i * 7) % 128

Fill(n) == [i \in 1..n |-> FillByte(i)]

\* a buffer of n octets that holds the octets of key from position at
Buffer(n, at, key) ==
  [i \in 1..n |-> IF i >= at /\ i < at + Len(key) THEN key[i - at + 1]
                  ELSE FillByte(i)]

\* Ethernet: every length below 12, then 12 octets of addresses followed by
\* every sequence of the octets 0x81, 0x00, 0x08
EthBytes == {129, 0, 8}

EthInputs ==
  {Fill(n) : n \in 0..11}
    \cup {Fill(12) \o k : k \in SeqsUpTo(EthBytes, MaxEthKey)}

\* IPv4: every first octet of the versions below, at every length
Ipv4Versions == {0, 4, 5, 6, 15}

\* packets: an IPv4 header, a TCP header of every data offset and what the
\* lengths below leave of options and payload
PacketIhls == {5, 7, 15}

PacketTcpLens == {0, 13, 19, 20, 23, 24, 30, 60, 61}

PacketInputs ==
  {Buffer(ihl * 4, 1, <<4 * 16 + ihl>>) \o Buffer(n, 13, <<d * 16, 18>>) :
     ihl \in PacketIhls, d \in 0..15, n \in PacketTcpLens}

\* headers with every first octet of the flags and fragment offset word
FragmentLows == {0, 1, 255}

FragmentInputs ==
  {[Buffer(20, 1, <<69>>) EXCEPT ![7] = hi, ![8] = lo] :
     hi \in 0..255, lo \in FragmentLows}

Ipv4Inputs ==
  {Buffer(n, 1, <<v * 16 + ihl>>) :
     v \in Ipv4Versions, ihl \in 0..15, n \in 0..MaxIpv4Len}
    \cup PacketInputs \cup FragmentInputs

\* IPv6: first octet (version, tc_0) and second octet, at every length;
\* whole headers with every traffic class; headers with every next header
Ipv6Versions == {0, 4, 6, 7, 15}

Ipv6Nibbles == {0, 5, 15}

\* next-header codes: hop-by-hop, TCP, routing, fragment, destination
\* options, reserved
Ipv6NextHeaders == {0, 6, 43, 44, 60, 255}

Ipv6Inputs ==
  {Buffer(n, 1, <<v * 16 + t0, t1 * 16 + 2>>) :
     v \in Ipv6Versions, t0 \in Ipv6Nibbles, t1 \in Ipv6Nibbles,
     n \in 0..MaxIpv6Len}
    \cup {Buffer(40, 1, <<6 * 16 + t0, t1 * 16 + f>>) :
            t0 \in 0..15, t1 \in 0..15, f \in {0, 15}}
    \cup {[Buffer(n, 1, <<6 * 16, f * 17, f * 17, f * 17>>) EXCEPT ![7] = nh] :
            n \in 40..MaxIpv6Len, f \in {0, 15}, nh \in Ipv6NextHeaders}

\* UDP: every sequence of two octet values
UdpBytes == {18, 255}

UdpInputs == SeqsUpTo(UdpBytes, MaxUdpLen)

\* TCP options: every short sequence of option octets, and concatenations
\* of well-formed, malformed and truncated options
OptBytes == {0, 1, 2, 4, 5, 9}

OptChunks ==
  { <<0>>, <<1>>,
    <<2, 4, 5, 58>>, <<2, 5, 5, 58>>, <<2, 4, 5>>,
    <<3, 3, 4>>, <<3, 4, 4>>,
    <<4, 2>>, <<4, 3>>,
    <<5, 10>> \o Fill(8), <<5, 18>> \o Fill(16), <<5, 26>> \o Fill(24),
    <<5, 34>> \o Fill(32), <<5, 12>> \o Fill(10), <<5, 10>> \o Fill(6),
    <<8, 10>> \o Fill(8), <<8, 9>> \o Fill(7),
    <<9, 2, 7, 7>>, <<9, 4, 7>>, <<9, 0>> }

\* the options of the packet of parse_tcp_packet_with_options
OptExample == <<2, 4, 5, 58, 1, 3, 3, 4, 4, 2, 0, 0>>

\* options followed by padding
OptPadded ==
  {c \o z : c \in {<<>>, <<1>>, <<2, 4, 5, 58>>, <<4, 2, 0, 3, 3, 4>>},
            z \in {<<0, 0, 0>>, <<0, 0, 0, 0>>, <<0, 0, 1>>}}

OptInputs ==
  SeqsUpTo(OptBytes, MaxOptLen)
    \cup {Concat(cs) : cs \in SeqsUpTo(OptChunks, MaxChunks)}
    \cup {OptExample} \cup OptPadded

\* TCP: every data offset at every length, and headers followed by the
\* option inputs
TcpFlagsLow == {0, 18}

TcpOffsets == {5, 6, 7}

TcpInputs ==
  {Buffer(n, 13, <<d * 16, lo>>) :
     d \in 0..15, lo \in TcpFlagsLow, n \in 0..MaxTcpLen}
    \cup {Buffer(20, 13, <<d * 16, 18>>) \o o : d \in TcpOffsets, o \in OptInputs}
    \cup {Buffer(20, 13, <<(5 + (Len(o) \div 4)) * 16, 18>>) \o o :
            o \in {x \in OptInputs : Len(x) <= 40}}

\* text: a string is written as the tuple of its characters
T(str) == [i \in DOMAIN str |-> Chr(str[i])]

TextChars == {Chr(":"), Chr("1"), Chr("."), Chr("0")}

RawTexts == SeqsUpTo(TextChars, MaxTextLen)

OctetTexts ==
  { T(<<"0">>), T(<<"1">>), T(<<"2", "5">>), T(<<"0", "1">>),
    T(<<"2", "5", "5">>), T(<<"2", "5", "6">>), T(<<"1", "0", "0">>),
    T(<<"2", "6", "0">>), T(<<"2", "9", "9">>), T(<<"0", "0">>) }

TextSuffixes == { <<>>, T(<<".">>), T(<<"1">>), T(<<"x">>) }

\* texts given to h16: digits and letters of both cases, a separator
H16Chars == {Chr("0"), Chr("1"), Chr("2"), Chr("F"), Chr("f"), Chr(":")}

H16Texts == SeqsUpTo(H16Chars, MaxH16Len)

Ipv4Texts ==
  RawTexts
    \cup {a \o T(<<".">>) \o b \o T(<<".">>) \o c \o T(<<".">>) \o d \o x :
            a \in OctetTexts, b \in {T(<<"0">>), T(<<"2", "5", "5">>)},
            c \in {T(<<"1">>)}, d \in OctetTexts, x \in TextSuffixes}

\* groups joined by ":" 
RECURSIVE Join(_)
Join(gs) ==
  IF gs = <<>> THEN <<>>
  ELSE IF Len(gs) = 1 THEN Head(gs)
  ELSE Head(gs) \o T(<<":">>) \o Join(Tail(gs))

GroupTexts == { T(<<"1">>), T(<<"f", "F", "0", "1">>) }

V4Text == T(<<"1", ".", "2", ".", "0", ".", "1">>)

Ipv6Sides ==
  {Join(gs) : gs \in SeqsUpTo(GroupTexts, 2)}
    \cup {Join([i \in 1..n |-> T(<<"1">>)]) : n \in 3..8}
    \cup { V4Text, T(<<"1", ":">>) \o V4Text, T(<<":", "1">>), T(<<"0", "1">>),
           T(<<"2", "5", "6">>), T(<<"1", "2", "3", "4", "5">>) }

Ipv6Texts ==
  RawTexts
    \cup {a \o T(<<":", ":">>) \o b : a \in Ipv6Sides, b \in Ipv6Sides}
    \cup {Join([i \in 1..n |-> g]) \o x :
            n \in 6..8, g \in GroupTexts, x \in TextSuffixes}
    \cup {Join([i \in 1..6 |-> T(<<"1">>)]) \o T(<<":">>) \o V4Text}

(***************************************************************************)
(* The state machine: a caller applies one decoder to an input, and may    *)
(* then decode the options span a TCP header returned.  calls records      *)
(* every call: the parser, the stream it was given and what it returned.   *)
(***************************************************************************)
Init ==
  /\ input = <<>>
  /\ calls = <<>>

Call(name, arg, out) ==
  calls' = Append(calls, [op |-> name, arg |-> arg, out |-> out])

EthernetFrame ==
  /\ calls = <<>>
  /\ \E b \in EthInputs : input' = b /\ Call("ethernet_frame", b, ethernet_frame(b))

Ipv4Header ==
  /\ calls = <<>>
  /\ \E b \in Ipv4Inputs : input' = b /\ Call("ipv4_header", b, ipv4_header(b))

Ipv6Header ==
  /\ calls = <<>>
  /\ \E b \in Ipv6Inputs : input' = b /\ Call("ipv6_header", b, ipv6_header(b))

TcpHeader ==
  /\ calls = <<>>
  /\ \E b \in TcpInputs : input' = b /\ Call("tcp_header", b, tcp_header(b))

UdpHeader ==
  /\ calls = <<>>
  /\ \E b \in UdpInputs : input' = b /\ Call("udp_header", b, udp_header(b))

TcpOptions ==
  /\ calls = <<>>
  /\ \E b \in OptInputs : input' = b /\ Call("tcp_options", b, tcp_options(b))

\* tcp_options.parse(tcp_header.options), as in parse_tcp_packet_with_options
TcpOptionsOfHeader ==
  /\ Len(calls) = 1
  /\ calls[1].op = "tcp_header"
  /\ IsSuccess(calls[1].out)
  /\ Call("tcp_options", calls[1].out.token.options,
          tcp_options(calls[1].out.token.options))
  /\ UNCHANGED input

\* (ipv4_header, tcp_header, all).parse(bytes), as in parse_tcp_packet:
\* tcp_header on the stream ipv4_header returned
TcpHeaderAfterIpv4 ==
  /\ Len(calls) = 1
  /\ calls[1].op = "ipv4_header"
  /\ IsSuccess(calls[1].out)
  /\ Call("tcp_header", calls[1].out.stream, tcp_header(calls[1].out.stream))
  /\ UNCHANGED input

\* all on the stream tcp_header returned
PayloadAfterTcp ==
  /\ Len(calls) = 2
  /\ calls[1].op = "ipv4_header"
  /\ calls[2].op = "tcp_header"
  /\ IsSuccess(calls[2].out)
  /\ Call("all", calls[2].out.stream, all(calls[2].out.stream))
  /\ UNCHANGED input

\* h16(h.as_bytes()), as in test_h16
H16 ==
  /\ calls = <<>>
  /\ \E b \in H16Texts : input' = b /\ Call("h16", b, h16(b))

Ipv4Address ==
  /\ calls = <<>>
  /\ \E b \in Ipv4Texts : input' = b /\ Call("ipv4_address", b, ipv4_address(b))

Ipv6Address ==
  /\ calls = <<>>
  /\ \E b \in Ipv6Texts : input' = b /\ Call("ipv6_address", b, ipv6_address(b))

Next ==
  \/ EthernetFrame
  \/ Ipv4Header
  \/ Ipv6Header
  \/ TcpHeader
  \/ UdpHeader
  \/ TcpOptions
  \/ TcpOptionsOfHeader
  \/ TcpHeaderAfterIpv4
  \/ PayloadAfterTcp
  \/ H16
  \/ Ipv4Address
  \/ Ipv6Address

Spec == Init /\ [][Next]_vars

\* the first call and the last call made
First == calls[1]

Last == calls[Len(calls)]

Made(name) == calls # <<>> /\ First.op = name

\* octets the first call consumed, when it succeeded
Consumed(c) == Len(c.arg) - Len(c.out.stream)

(***************************************************************************)
(* TCP options span and its decoding                                       *)
(***************************************************************************)
\* C1: for every TCP header decoded with data offset d, the options span has
\* (d-5)*4 bytes and tcp_options applied to the span succeeds and consumes
\* all of it (the stream it returns is empty), whatever the span contains.
C1_OptionsConsumeWholeSpan ==
  (Len(calls) = 2 /\ First.op = "tcp_header") =>
    /\ Len(First.out.token.options) =
         (get_data_offset(First.out.token.flags) - 5) * 4
    /\ IsSuccess(Last.out)
    /\ Last.out.stream = <<>>

\* the length octet the fixed-length option with code op must carry, and
\* the atom tagged for it
FixedLen(op) ==
  CASE op = 2 -> 4
    [] op = 3 -> 3
    [] op = 4 -> 2
    [] op = 8 -> 10

FixedLenAtom(op) ==
  CASE op = 2 -> "TcpAtom::MssLen"
    [] op = 3 -> "TcpAtom::WindowScaleLen"
    [] op = 4 -> "TcpAtom::SackPermittedLen"
    [] op = 8 -> "TcpAtom::TimestampsLen"

\* C2: when tcp_options meets an option of code 2, 3, 4 or 8 whose length
\* octet is not 4, 3, 2 or 10, it returns a fatal Error carrying MssLen,
\* WindowScaleLen, SackPermittedLen or TimestampsLen (never Success).
C2_FixedLengthMismatchIsFatal ==
  \A i \in 1..Len(calls) :
    LET c == calls[i] IN
      ( /\ c.op = "tcp_options"
        /\ Len(c.arg) >= 2
        /\ c.arg[1] \in {2, 3, 4, 8}
        /\ c.arg[2] # FixedLen(c.arg[1]) )
      => ( /\ c.out.kind = "Error"
           /\ c.out.atom.tag = FixedLenAtom(c.arg[1]) )

\* the n big-endian u32 words that follow the two octets of an option
WordsAfterLength(arg, n) ==
  [k \in 1..n |-> u32_from_be_bytes(SubSeq(arg, 4 * k - 1, 4 * k + 2))]

\* C3: when tcp_options meets a SACK option (code 5), a length octet other
\* than 10, 18, 26, 34 gives a fatal Error carrying SackLen(length); a length
\* of 10, 18, 26 or 34 reads 2, 4, 6 or 8 u32 words into Sack A, B, C or D.
C3_SackLength ==
  \A i \in 1..Len(calls) :
    LET c == calls[i] IN
      (c.op = "tcp_options" /\ Len(c.arg) >= 2 /\ c.arg[1] = 5)
      => IF c.arg[2] \notin {10, 18, 26, 34}
         THEN /\ c.out.kind = "Error"
              /\ c.out.atom = Atom("TcpAtom::SackLen", c.arg[2])
         ELSE Len(c.arg) >= c.arg[2]
              => /\ IsSuccess(c.out)
                 /\ c.out.token # <<>>
                 /\ c.out.token[1] =
                      [opt |-> "Sack",
                       variant |-> sack_variant(c.arg[2]),
                       words |-> WordsAfterLength(c.arg, (c.arg[2] - 2) \div 4)]

(***************************************************************************)
(* TCP data offset                                                         *)
(***************************************************************************)
\* C4: for every input that holds a flags word (octets 13-14) whose data
\* offset is below 5, tcp_header returns the fatal Error DataOffSet: never
\* Success, and the options length is never computed from such an offset.
C4_DataOffsetBelowFiveIsFatal ==
  \A i \in 1..Len(calls) :
    LET c == calls[i] IN
      (c.op = "tcp_header" /\ Len(c.arg) >= 14 /\ c.arg[13] \div 16 < 5)
      => ( /\ c.out.kind = "Error"
           /\ c.out.atom.tag = "TcpAtom::DataOffSet" )

\* a whole header with data offset 4 was rejected
C4_Witness ==
  /\ Made("tcp_header")
  /\ Len(First.arg) >= 20
  /\ First.arg[13] \div 16 = 4
  /\ First.out.kind = "Error"

(***************************************************************************)
(* IPv4 header                                                             *)
(***************************************************************************)
\* C5: for every non-empty input whose first octet has a version other than 4
\* or an IHL below 5, ipv4_header returns a fatal Error, Ipv4Atom::Version or
\* Ipv4Atom::IHL with the offending value, however many octets follow.
C5_VersionAndIhlAreFatal ==
  \A i \in 1..Len(calls) :
    LET c == calls[i] IN
      (c.op = "ipv4_header" /\ Len(c.arg) >= 1)
      => LET version == c.arg[1] \div 16
             ihl == c.arg[1] % 16
         IN /\ version # 4
               => c.out = Error(Atom("Ipv4Atom::Version", version))
            /\ (version = 4 /\ ihl < 5)
               => c.out = Error(Atom("Ipv4Atom::IHL", ihl))

\* both errors were returned: a wrong version on a one-octet input, a small
\* IHL on a whole header
C5_Witness ==
  /\ Made("ipv4_header")
  /\ Len(First.arg) \in {1, 20}
  /\ \/ Len(First.arg) = 1 /\ First.arg[1] \div 16 = 6
        /\ First.out.kind = "Error"
     \/ Len(First.arg) = 20 /\ First.arg[1] = 4 * 16 + 4
        /\ First.out.kind = "Error"

\* C6: on every successful ipv4_header, version = 4, 5 <= ihl <= 15, the
\* options span has (ihl-5)*4 octets (a multiple of 4, at most 40) and the
\* decoder has consumed ihl*4 octets of the input.
C6_Ipv4SuccessShape ==
  \A i \in 1..Len(calls) :
    LET c == calls[i] IN
      (c.op = "ipv4_header" /\ IsSuccess(c.out))
      => LET h == c.out.token IN
           /\ h.version = 4
           /\ h.ihl >= 5 /\ h.ihl <= 15
           /\ h.ihl = c.arg[1] % 16
           /\ Len(h.options) = (h.ihl - 5) * 4
           /\ Len(h.options) % 4 = 0
           /\ Len(h.options) <= 40
           /\ Consumed(c) = h.ihl * 4
           /\ h.options = SubSeq(c.arg, 21, h.ihl * 4)

\* a header with the longest options (ihl = 15) was decoded, with payload left
C6_Witness ==
  /\ Made("ipv4_header")
  /\ IsSuccess(First.out)
  /\ First.out.token.ihl = 15
  /\ Len(First.out.token.options) = 40
  /\ First.out.stream # <<>>

(***************************************************************************)
(* Underrun                                                                *)
(***************************************************************************)
\* the minimum size of each header
MinSize(op) ==
  CASE op = "ethernet_frame" -> 14
    [] op = "ipv4_header" -> 20
    [] op = "ipv6_header" -> 40
    [] op = "tcp_header" -> 20
    [] op = "udp_header" -> 8

HeaderDecoders ==
  {"ethernet_frame", "ipv4_header", "ipv6_header", "tcp_header", "udp_header"}

\* C7: on every buffer shorter than the header's minimum size (Ethernet 14,
\* IPv4 20, IPv6 40, TCP 20, UDP 8), the empty one included, the decoder
\* returns a Failure or an Error: never Success, and nothing is read past
\* the end of the buffer.
C7_ShortBufferNeverSucceeds ==
  \A i \in 1..Len(calls) :
    LET c == calls[i] IN
      (c.op \in HeaderDecoders /\ Len(c.arg) < MinSize(c.op))
      => c.out.kind \in {"Failure", "Error"}

\* a UDP buffer one octet short of the header was refused
C7_Witness ==
  /\ Made("udp_header")
  /\ Len(First.arg) = 7
  /\ First.out.kind = "Failure"

(***************************************************************************)
(* Ethernet                                                                *)
(***************************************************************************)
\* the 16-bit big-endian field at octets at, at+1 (counted from 1)
FieldAt(arg, at) == u16_from_be_bytes(<<arg[at], arg[at + 1]>>)

\* C8: on success ethernet_frame reports tci = Some(t) exactly when the
\* field at bytes 12-13 is 0x8100; then t is the next 16 bits and ether_type
\* the 16 bits after t, as they are even when 0x8100 again; otherwise tci is
\* None and ether_type is the field at bytes 12-13.
C8_VlanUnwrappedOnce ==
  \A i \in 1..Len(calls) :
    LET c == calls[i] IN
      (c.op = "ethernet_frame" /\ IsSuccess(c.out))
      => LET f == c.out.token IN
           /\ f.tci.some <=> FieldAt(c.arg, 13) = 33024
           /\ f.tci.some
              => /\ f.tci.value = FieldAt(c.arg, 15)
                 /\ f.ether_type = FieldAt(c.arg, 17)
           /\ ~f.tci.some
              => /\ f.tci = None
                 /\ f.ether_type = FieldAt(c.arg, 13)

\* a frame whose type after the VLAN tag is 0x8100 again was decoded
C8_Witness ==
  /\ Made("ethernet_frame")
  /\ IsSuccess(First.out)
  /\ First.out.token.tci.some
  /\ First.out.token.ether_type = 33024

\* C9, as the specification states it: on success ethernet_frame consumes 14 bytes without a
\* VLAN tag and 2 bytes more, 16, with one.
C9_VlanAddsTwoBytes ==
  \A i \in 1..Len(calls) :
    LET c == calls[i] IN
      (c.op = "ethernet_frame" /\ IsSuccess(c.out))
      => Consumed(c) = IF c.out.token.tci.some THEN 16 ELSE 14

\* C9: on success ethernet_frame consumes 14 bytes without a VLAN tag and
\* 4 bytes more, 18, with one (the 0x8100 field, the tag control information
\* and the real type), and returns the rest of the input as the stream.
C9_VlanAddsFourBytes ==
  \A i \in 1..Len(calls) :
    LET c == calls[i] IN
      (c.op = "ethernet_frame" /\ IsSuccess(c.out))
      => /\ Consumed(c) = IF c.out.token.tci.some THEN 18 ELSE 14
         /\ c.out.stream = Drop(c.arg, Consumed(c))

\* a frame of exactly 18 octets with a VLAN tag was decoded
C9_Witness ==
  /\ Made("ethernet_frame")
  /\ IsSuccess(First.out)
  /\ First.out.token.tci.some
  /\ Len(First.arg) = 18
  /\ First.out.stream = <<>>

(***************************************************************************)
(* Textual addresses against the standard library                          *)
(***************************************************************************)
\* what Ipv4Addr::from_str / Ipv6Addr::from_str return on the input of c
Reference(c) ==
  IF c.op = "ipv4_address" THEN Ipv4Addr_from_str(c.arg)
  ELSE Ipv6Addr_from_str(c.arg)

\* C10: ipv4_address and ipv6_address applied to a whole string return
\* Success exactly when Ipv4Addr::from_str / Ipv6Addr::from_str accepts the
\* string, and then with the same address and an empty remaining stream.
C10_SameAsStandardLibrary ==
  \A i \in 1..Len(calls) :
    LET c == calls[i] IN
      c.op \in {"ipv4_address", "ipv6_address"}
      => /\ IsSuccess(c.out) <=> Reference(c).ok
         /\ Reference(c).ok
            => /\ c.out.token = Reference(c).value
               /\ c.out.stream = <<>>

(***************************************************************************)
(* Textual addresses: what is consumed                                     *)
(***************************************************************************)
TextParsers == {"ipv4_address", "ipv6_address"}

\* the parser of a call applied to another text
Reparse(c, text) ==
  IF c.op = "ipv4_address" THEN ipv4_address(text) ELSE ipv6_address(text)

From(arg, p) == Drop(arg, p - 1)

\* position p starts an octet: it is the start of the text, or it follows a
\* "." and the text before it, completed by "0", is a whole address
OctetStart(arg, p) ==
  \/ p = 1
  \/ /\ p > 1
     /\ arg[p - 1] = Chr(".")
     /\ ipv4_address(Take(arg, p - 1) \o T(<<"0">>)).kind = "Success"

\* three digits at position p that read as a decimal value above 255
Above255(arg, p) ==
  /\ p + 2 <= Len(arg)
  /\ arg[p] = Chr("2")
  /\ IsDigit(arg[p + 1]) /\ IsDigit(arg[p + 2])
  /\ 200 + (arg[p + 1] - 48) * 10 + (arg[p + 2] - 48) > 255

NotAnOctet == Error(Atom("IpAddrAtom::NotAnOctet", NoValue))

\* C12: a decimal value above 255 (256..259 in the 25x branch, 260..299 in
\* the 2xx branch) is the fatal Error NotAnOctet of dec_octet: no later
\* alternative produces a shorter octet from that position, and ipv4_address
\* returns that Error when the value stands where an octet is expected.
C12_OverflowIsFatal ==
  \A i \in 1..Len(calls) :
    LET c == calls[i] IN
      c.op = "ipv4_address"
      => \A p \in 1..Len(c.arg) :
           Above255(c.arg, p)
           => /\ dec_octet(From(c.arg, p)) = NotAnOctet
              /\ OctetStart(c.arg, p) => c.out = NotAnOctet

\* 299, in the 2xx branch, was refused as the fourth octet
C12_Witness ==
  /\ Made("ipv4_address")
  /\ Len(First.arg) = 9
  /\ Above255(First.arg, 7)
  /\ First.arg[8] = Chr("9")
  /\ OctetStart(First.arg, 7)
  /\ First.out = NotAnOctet

\* a "0" at position p followed by another digit
ZeroThenDigit(arg, p) ==
  /\ p + 1 <= Len(arg)
  /\ arg[p] = Chr("0")
  /\ IsDigit(arg[p + 1])

LeadingZero == Error(Atom("IpAddrAtom::LeadingZero", NoValue))

\* C13: a "0" followed by another digit is the fatal Error LeadingZero of
\* dec_octet: the single-digit alternative is not tried, so the text is never
\* read as the octet 0 with digits left, and ipv4_address returns that Error
\* when the text stands where an octet is expected.
C13_LeadingZeroIsFatal ==
  \A i \in 1..Len(calls) :
    LET c == calls[i] IN
      c.op = "ipv4_address"
      => \A p \in 1..Len(c.arg) :
           ZeroThenDigit(c.arg, p)
           => /\ dec_octet(From(c.arg, p)) = LeadingZero
              /\ OctetStart(c.arg, p) => c.out = LeadingZero

\* 00 was refused as the fourth octet of an address
C13_Witness ==
  /\ Made("ipv4_address")
  /\ Len(First.arg) = 8
  /\ ZeroThenDigit(First.arg, 7)
  /\ First.arg[8] = Chr("0")
  /\ OctetStart(First.arg, 7)
  /\ First.out = LeadingZero

(***************************************************************************)
(* IPv6 header                                                             *)
(***************************************************************************)
\* bitwise or of two naturals
RECURSIVE BitOr(_, _)
BitOr(a, b) ==
  IF a = 0 THEN b
  ELSE IF b = 0 THEN a
  ELSE (IF a % 2 = 1 \/ b % 2 = 1 THEN 1 ELSE 0) + 2 * BitOr(a \div 2, b \div 2)

\* bitwise and of two naturals
RECURSIVE BitAnd(_, _)
BitAnd(a, b) ==
  IF a = 0 \/ b = 0 THEN 0
  ELSE (IF a % 2 = 1 /\ b % 2 = 1 THEN 1 ELSE 0) + 2 * BitAnd(a \div 2, b \div 2)

\* the traffic-class nibbles of an input: low 4 bits of byte 0, high 4 bits
\* of byte 1
TcHigh(arg) == arg[1] % 16

TcLow(arg) == arg[2] \div 16

\* C14: for every traffic class of nibbles h and l, ipv6_header yields
\* ds = (h << 2) | (l >> 2) and ecn = l & 0b11; the sum (h << 2) + (l >> 2)
\* of the code equals the bitwise or and stays below 256; ds <= 63,
\* ecn <= 3 and ds*4 + ecn = h*16 + l.
C14_TrafficClass ==
  \A i \in 1..Len(calls) :
    LET c == calls[i] IN
      (c.op = "ipv6_header" /\ IsSuccess(c.out))
      => LET h == TcHigh(c.arg)
             l == TcLow(c.arg)
             t == c.out.token
         IN /\ t.ds = BitOr(h * 4, l \div 4)
            /\ t.ecn = BitAnd(l, 3)
            /\ h * 4 + l \div 4 = BitOr(h * 4, l \div 4)
            /\ h * 4 + l \div 4 <= 255
            /\ t.ds <= 63
            /\ t.ecn <= 3
            /\ t.ds * 4 + t.ecn = h * 16 + l

\* the traffic class 0xff was decoded: ds = 63, ecn = 3
C14_Witness ==
  /\ Made("ipv6_header")
  /\ IsSuccess(First.out)
  /\ TcHigh(First.arg) = 15 /\ TcLow(First.arg) = 15
  /\ First.out.token.ds = 63
  /\ First.out.token.ecn = 3

\* C15: for every non-empty input whose first octet has a high nibble other
\* than 6, ipv6_header returns the fatal Error Ipv6Atom::Version carrying
\* that nibble, however many octets follow; a Success always has version 6.
C15_Ipv6VersionIsFatal ==
  \A i \in 1..Len(calls) :
    LET c == calls[i] IN
      c.op = "ipv6_header"
      => /\ (Len(c.arg) >= 1 /\ c.arg[1] \div 16 # 6)
            => c.out = Error(Atom("Ipv6Atom::Version", c.arg[1] \div 16))
         /\ IsSuccess(c.out) => c.out.token.version = 6

\* a whole header of version 4 was refused with Version(4)
C15_Witness ==
  /\ Made("ipv6_header")
  /\ Len(First.arg) >= 40
  /\ First.arg[1] \div 16 = 4
  /\ First.out = Error(Atom("Ipv6Atom::Version", 4))

\* C16: on every input of at least 40 octets whose version nibble is 6,
\* ipv6_header succeeds and consumes exactly 40 octets whatever the next
\* header is, which is reported as it is; flow_label is the 20-bit value of
\* the low nibble of byte 1 and bytes 2-3, at most 0xFFFFF.
C16_Ipv6FixedHeader ==
  \A i \in 1..Len(calls) :
    LET c == calls[i] IN
      (c.op = "ipv6_header" /\ Len(c.arg) >= 40 /\ c.arg[1] \div 16 = 6)
      => /\ IsSuccess(c.out)
         /\ Consumed(c) = 40
         /\ c.out.stream = Drop(c.arg, 40)
         /\ c.out.token.next_header = c.arg[7]
         /\ c.out.token.flow_label =
              (c.arg[2] % 16) * 65536 + c.arg[3] * 256 + c.arg[4]
         /\ c.out.token.flow_label <= 1048575
         /\ c.out.token.length = FieldAt(c.arg, 5)
         /\ c.out.token.hop_limit = c.arg[8]
         /\ c.out.token.source_addr = SubSeq(c.arg, 9, 24)
         /\ c.out.token.dest_addr = SubSeq(c.arg, 25, 40)

\* a header announcing a hop-by-hop extension header, with the largest flow
\* label and one octet after it, was decoded
C16_Witness ==
  /\ Made("ipv6_header")
  /\ Len(First.arg) = 41
  /\ IsSuccess(First.out)
  /\ First.out.token.next_header = 0
  /\ First.out.token.flow_label = 1048575
  /\ Len(First.out.stream) = 1

(***************************************************************************)
(* UDP header                                                              *)
(***************************************************************************)
\* C17: udp_header succeeds on every input of at least 8 octets, whatever
\* their values: it consumes exactly 8 octets and returns source_port,
\* dest_port, length and checksum as the four consecutive big-endian 16-bit
\* fields, unvalidated; it fails only when fewer than 8 octets are given.
C17_UdpHeader ==
  \A i \in 1..Len(calls) :
    LET c == calls[i] IN
      c.op = "udp_header"
      => IF Len(c.arg) >= 8
         THEN c.out = Success([source_port |-> FieldAt(c.arg, 1),
                               dest_port |-> FieldAt(c.arg, 3),
                               length |-> FieldAt(c.arg, 5),
                               checksum |-> FieldAt(c.arg, 7)],
                              Drop(c.arg, 8))
         ELSE c.out.kind = "Failure"

\* a header whose length field (0xffff) exceeds the 9 octets given was
\* decoded, with one octet left
C17_Witness ==
  /\ Made("udp_header")
  /\ Len(First.arg) = 9
  /\ IsSuccess(First.out)
  /\ First.out.token.length = 65535
  /\ Len(First.out.stream) = 1

(***************************************************************************)
(* Chained decoders                                                        *)
(***************************************************************************)
\* the calls are those of (ipv4_header, tcp_header, ..) on one buffer
Chained == Len(calls) >= 2 /\ calls[1].op = "ipv4_header"

\* C18: after ipv4_header succeeds the remaining stream starts ihl*4 octets
\* into the input; tcp_header applied to it leaves a stream that starts
\* ihl*4 + data_offset*4 octets into the input, and the payload read next is
\* exactly the input after both headers.
C18_CursorHandOff ==
  Chained
  => LET ihl == calls[1].out.token.ihl IN
       /\ calls[1].arg = input
       /\ calls[2].arg = Drop(input, ihl * 4)
       /\ IsSuccess(calls[2].out)
          => LET d == get_data_offset(calls[2].out.token.flags) IN
               /\ calls[2].out.stream = Drop(input, ihl * 4 + d * 4)
               /\ Len(calls) = 3
                  => calls[3].out = Success(Drop(input, ihl * 4 + d * 4), <<>>)

\* a packet with IPv4 options (ihl = 7) and TCP options (data offset 6) was
\* decoded and its 6 octets of payload read
C18_Witness ==
  /\ Chained
  /\ Len(calls) = 3
  /\ calls[1].out.token.ihl = 7
  /\ get_data_offset(calls[2].out.token.flags) = 6
  /\ Len(calls[3].out.token) = 6
  /\ calls[3].out.token = Drop(input, 52)

(***************************************************************************)
(* Propagation of errors                                                   *)
(***************************************************************************)
\* the alternatives of ipv6_address, in order
Ipv6Alternative(k, s) ==
  CASE k = 0 -> ipv6_address_0(s)
    [] k = 1 -> ipv6_address_1(s)
    [] k = 2 -> ipv6_address_2(s)
    [] k = 3 -> ipv6_address_3(s)
    [] k = 4 -> ipv6_address_4(s)
    [] k = 5 -> ipv6_address_5(s)
    [] k = 6 -> ipv6_address_6(s)
    [] k = 7 -> ipv6_address_7(s)
    [] k = 8 -> ipv6_address_8(s)

\* alternative k is the first that does not end with a Failure
FirstDecided(k, s) ==
  /\ Ipv6Alternative(k, s).kind # "Failure"
  /\ \A j \in 0..(k - 1) : Ipv6Alternative(j, s).kind = "Failure"

\* an error of an alternative of ipv6_address (raised by dec_octet under
\* ls32) is what ipv6_address returns, and no later alternative is tried
ErrorLeavesAlternation ==
  \A i \in 1..Len(calls) :
    LET c == calls[i] IN
      c.op = "ipv6_address"
      => \A k \in 0..8 :
           (FirstDecided(k, c.arg) /\ Ipv6Alternative(k, c.arg).kind = "Error")
           => c.out = Ipv6Alternative(k, c.arg)

\* the atoms of the option errors the repetition must not absorb
LengthAtoms ==
  {"TcpAtom::MssLen", "TcpAtom::WindowScaleLen", "TcpAtom::SackPermittedLen",
   "TcpAtom::SackLen", "TcpAtom::TimestampsLen"}

\* what the first option that is not decoded returns, following the options
\* of s in order
RECURSIVE FirstRefusal(_)
FirstRefusal(s) ==
  Bind(tcp_option(s), LAMBDA r : IF IsSuccess(r) THEN FirstRefusal(r.stream) ELSE r)

\* an option error raised inside the repetition of tcp_options is returned
\* as a fatal Error, never replaced by a Success with the options before it
ErrorLeavesRepetition ==
  \A i \in 1..Len(calls) :
    LET c == calls[i] IN
      (c.op = "tcp_options" /\ FirstRefusal(c.arg).atom.tag \in LengthAtoms)
      => c.out = Error(FirstRefusal(c.arg).atom)

OptionCode(t) ==
  CASE t.opt = "EndOfOption" -> 0
    [] t.opt = "Noop" -> 1
    [] t.opt = "MaximumSegmentSize" -> 2
    [] t.opt = "WindowScale" -> 3
    [] t.opt = "SackPermitted" -> 4
    [] t.opt = "Sack" -> 5
    [] t.opt = "Timestamps" -> 8
    [] t.opt = "Unknown" -> t.code

\* the octets an option entry was decoded from
OptionWidth(t) ==
  CASE t.opt = "EndOfOption" -> 1
    [] t.opt = "Noop" -> 1
    [] t.opt = "MaximumSegmentSize" -> 4
    [] t.opt = "WindowScale" -> 3
    [] t.opt = "SackPermitted" -> 2
    [] t.opt = "Sack" -> 2 + 4 * Len(t.words)
    [] t.opt = "Timestamps" -> 10
    [] t.opt = "Unknown" -> 2 + Len(t.span)

\* position in the input of entry j of the options toks; for
\* j = Len(toks) + 1, the position after the last entry
RECURSIVE OptionStart(_, _)
OptionStart(toks, j) ==
  IF j = 1 THEN 1 ELSE OptionStart(toks, j - 1) + OptionWidth(toks[j - 1])

AllZeroFrom(arg, p) == \A q \in p..Len(arg) : arg[q] = 0

EndOfOption == [opt |-> "EndOfOption"]

\* C20: tcp_options returns the options in wire order; an octet 0 at an
\* option boundary yields one EndOfOption entry, consumes one byte and does
\* not stop the repetition, so k trailing zero bytes yield k EndOfOption
\* entries, and the options of parse_tcp_packet_with_options are 6 entries
\* ending with two EndOfOption.
C20_EndOfOptionIsAnEntry ==
  \A i \in 1..Len(calls) :
    LET c == calls[i] IN
      (c.op = "tcp_options" /\ IsSuccess(c.out))
      => LET toks == c.out.token
             end == OptionStart(toks, Len(toks) + 1)
         IN /\ end <= Len(c.arg) + 1
            /\ c.out.stream = From(c.arg, end)
            /\ \A j \in 1..Len(toks) :
                 /\ c.arg[OptionStart(toks, j)] = OptionCode(toks[j])
                 /\ c.arg[OptionStart(toks, j)] = 0 => toks[j] = EndOfOption
            /\ end <= Len(c.arg) => c.arg[end] # 0
            /\ \A j \in 1..(Len(toks) + 1) :
                 AllZeroFrom(c.arg, OptionStart(toks, j))
                 => /\ c.out.stream = <<>>
                    /\ Len(toks) = j - 1 + (Len(c.arg) + 1 - OptionStart(toks, j))
                    /\ \A k \in j..Len(toks) : toks[k] = EndOfOption
            /\ c.arg = OptExample
               => c.out = Success(<<[opt |-> "MaximumSegmentSize", value |-> 1338],
                                    [opt |-> "Noop"],
                                    [opt |-> "WindowScale", value |-> 4],
                                    [opt |-> "SackPermitted"],
                                    EndOfOption, EndOfOption>>, <<>>)

\* the options of parse_tcp_packet_with_options were decoded, from the
\* options span of its header: 6 entries, the last two for the padding
C20_Witness ==
  /\ Len(calls) = 2
  /\ First.op = "tcp_header"
  /\ Last.op = "tcp_options"
  /\ Last.arg = OptExample
  /\ IsSuccess(Last.out)
  /\ Len(Last.out.token) = 6
  /\ Last.out.token[5] = EndOfOption
  /\ Last.out.token[6] = EndOfOption

(***************************************************************************)
(* Unknown options                                                         *)
(***************************************************************************)
KnownCodes == {0, 1, 2, 3, 4, 5, 8}

\* the option boundaries of a tcp_options call that succeeded: the start of
\* each entry and the place where the repetition ended
Boundaries(c) ==
  {OptionStart(c.out.token, j) : j \in 1..(Len(c.out.token) + 1)}

\* the result of tcp_option at the boundary p of the call c, as the call
\* shows it: the entry that starts at p, or nothing when the repetition
\* ended at p
EntryAt(c, p) ==
  LET js == {j \in 1..Len(c.out.token) : OptionStart(c.out.token, j) = p}
  IN IF js = {} THEN None ELSE Some(c.out.token[CHOOSE j \in js : TRUE])

\* C21: for a code other than 0, 1, 2, 3, 4, 5, 8, tcp_option reads a length
\* octet n and captures exactly the n bytes after it as the span of
\* Unknown((code, span)); when fewer than n bytes follow, the result is an
\* underrun Failure, never a Success with a shorter span.
C21_UnknownOption ==
  \A i \in 1..Len(calls) :
    LET c == calls[i] IN
      (c.op = "tcp_options" /\ IsSuccess(c.out))
      => \A p \in Boundaries(c) :
           (p <= Len(c.arg) /\ c.arg[p] \notin KnownCodes)
           => IF p + 1 <= Len(c.arg) /\ p + 1 + c.arg[p + 1] <= Len(c.arg)
              THEN /\ tcp_option(From(c.arg, p)) =
                        Success([opt |-> "Unknown", code |-> c.arg[p],
                                 span |-> SubSeq(c.arg, p + 2, p + 1 + c.arg[p + 1])],
                                From(c.arg, p + 2 + c.arg[p + 1]))
                   /\ EntryAt(c, p) =
                        Some([opt |-> "Unknown", code |-> c.arg[p],
                              span |-> SubSeq(c.arg, p + 2, p + 1 + c.arg[p + 1])])
              ELSE /\ tcp_option(From(c.arg, p)).kind = "Failure"
                   /\ EntryAt(c, p) = None

\* an unknown option with a span of two bytes was decoded, and one whose
\* length octet asks for more bytes than follow was refused
C21_Witness ==
  /\ Made("tcp_options")
  /\ First.arg = <<9, 2, 7, 7, 9, 4, 7>>
  /\ IsSuccess(First.out)
  /\ First.out.token = <<[opt |-> "Unknown", code |-> 9, span |-> <<7, 7>>]>>
  /\ First.out.stream = <<9, 4, 7>>

(***************************************************************************)
(* Termination: the repetition of tcp_options and the alternations, one    *)
(* iteration or one alternative per step                                   *)
(***************************************************************************)
\* the alternatives of dec_octet, in order
DecOctetAlternative(k, s) ==
  CASE k = 0 -> dec_octet_0(s)
    [] k = 1 -> dec_octet_1(s)
    [] k = 2 -> dec_octet_2(s)
    [] k = 3 -> dec_octet_3(s)
    [] k = 4 -> dec_octet_4(s)

DecOctetNames ==
  <<"dec_octet_0", "dec_octet_1", "dec_octet_2", "dec_octet_3", "dec_octet_4">>

Ipv6AddressNames ==
  <<"ipv6_address_0", "ipv6_address_1", "ipv6_address_2", "ipv6_address_3",
    "ipv6_address_4", "ipv6_address_5", "ipv6_address_6", "ipv6_address_7",
    "ipv6_address_8">>

Range(names) == {names[k] : k \in 1..Len(names)}

DecOctetInputs == {a \o x : a \in OctetTexts, x \in TextSuffixes} \cup RawTexts

\* the first iteration of tcp_option.fold_bounds(.., ..)
TcpOptionFirst ==
  /\ calls = <<>>
  /\ \E b \in OptInputs : input' = b /\ Call("tcp_option", b, tcp_option(b))

\* the next iteration, on the stream the previous one returned
TcpOptionAgain ==
  /\ calls # <<>>
  /\ Last.op = "tcp_option"
  /\ IsSuccess(Last.out)
  /\ Call("tcp_option", Last.out.stream, tcp_option(Last.out.stream))
  /\ UNCHANGED input

\* the first alternative of dec_octet
DecOctetFirst ==
  /\ calls = <<>>
  /\ \E b \in DecOctetInputs : input' = b /\ Call("dec_octet_0", b, dec_octet_0(b))

\* the alternative after one that ended with a Failure, on the same stream
DecOctetOr ==
  /\ calls # <<>>
  /\ \E k \in 1..4 :
       /\ Last.op = DecOctetNames[k]
       /\ Last.out.kind = "Failure"
       /\ Call(DecOctetNames[k + 1], input, DecOctetAlternative(k, input))
  /\ UNCHANGED input

\* the first alternative of ipv6_address
Ipv6AddressFirst ==
  /\ calls = <<>>
  /\ \E b \in Ipv6Texts : input' = b /\ Call("ipv6_address_0", b, ipv6_address_0(b))

Ipv6AddressOr ==
  /\ calls # <<>>
  /\ \E k \in 1..8 :
       /\ Last.op = Ipv6AddressNames[k]
       /\ Last.out.kind = "Failure"
       /\ Call(Ipv6AddressNames[k + 1], input, Ipv6Alternative(k, input))
  /\ UNCHANGED input

\* headers that declare options, on buffers that hold them or not
Ipv4WithOptions ==
  {Buffer(n, 1, <<4 * 16 + ihl>>) : ihl \in 5..15, n \in 20..MaxIpv4Len}

TcpWithOptions ==
  {Buffer(n, 13, <<d * 16, 18>>) : d \in 5..15, n \in 20..MaxTcpLen}

Ipv4HeaderWithOptions ==
  /\ calls = <<>>
  /\ \E b \in Ipv4WithOptions : input' = b /\ Call("ipv4_header", b, ipv4_header(b))

TcpHeaderWithOptions ==
  /\ calls = <<>>
  /\ \E b \in TcpWithOptions : input' = b /\ Call("tcp_header", b, tcp_header(b))

StepNext ==
  \/ TcpOptionFirst
  \/ TcpOptionAgain
  \/ DecOctetFirst
  \/ DecOctetOr
  \/ Ipv6AddressFirst
  \/ Ipv6AddressOr
  \/ Ipv4HeaderWithOptions
  \/ TcpHeaderWithOptions

\* a call that has begun goes on until it returns
Steps == Init /\ [][StepNext]_vars /\ WF_vars(StepNext)

\* the call has returned: the repetition met an option it does not decode,
\* the alternation an alternative that did not fail or its last one
Returned ==
  /\ calls # <<>>
  /\ Last.op = "tcp_option" => ~IsSuccess(Last.out)
  /\ Last.op \in Range(DecOctetNames)
       => Last.out.kind # "Failure" \/ Last.op = "dec_octet_4"
  /\ Last.op \in Range(Ipv6AddressNames)
       => Last.out.kind # "Failure" \/ Last.op = "ipv6_address_8"

\* every decoded option took at least one byte, so the repetition makes at
\* most one iteration per byte and one more that fails
RepetitionBounded ==
  /\ \A i \in 1..Len(calls) :
       (calls[i].op = "tcp_option" /\ IsSuccess(calls[i].out))
       => /\ Len(calls[i].out.stream) < Len(calls[i].arg)
          /\ i <= Len(input)
  /\ Made("tcp_option") => Len(calls) <= Len(input) + 1

\* a declared length larger than what remains is a Failure: the options of
\* the IPv4 header, the options of the TCP header, the length octet of a TCP
\* option
DeclaredLengthBounded ==
  \A i \in 1..Len(calls) :
    LET c == calls[i] IN
      /\ (c.op = "ipv4_header" /\ Len(c.arg) >= 20 /\ c.arg[1] \div 16 = 4
            /\ c.arg[1] % 16 >= 5 /\ (c.arg[1] % 16) * 4 > Len(c.arg))
         => c.out.kind = "Failure"
      /\ (c.op = "tcp_header" /\ Len(c.arg) >= 20 /\ c.arg[13] \div 16 >= 5
            /\ (c.arg[13] \div 16) * 4 > Len(c.arg))
         => c.out.kind = "Failure"
      /\ (c.op = "tcp_option" /\ Len(c.arg) >= 2 /\ c.arg[1] \notin {0, 1}
            /\ c.arg[2] > Len(c.arg) - (IF c.arg[1] \in KnownCodes THEN 0 ELSE 2))
         => c.out.kind = "Failure"

\* the alternatives are tried in order, each at most once, on the same stream
AlternativesOnce ==
  \A names \in {DecOctetNames, Ipv6AddressNames} :
    (calls # <<>> /\ First.op \in Range(names))
    => /\ Len(calls) <= Len(names)
       /\ \A i \in 1..Len(calls) :
            /\ calls[i].op = names[i]
            /\ calls[i].arg = input
            /\ i < Len(calls) => calls[i].out.kind = "Failure"

\* C22: every decode call terminates on every finite input: the repetition
\* of tcp_options consumes at least one byte per decoded option, a declared
\* length larger than the remaining bytes ends in an underrun failure, and
\* the alternations of dec_octet and ipv6_address try each of their 5 and 9
\* alternatives at most once.
C22_Terminates ==
  /\ <>Returned
  /\ [](RepetitionBounded /\ DeclaredLengthBounded /\ AlternativesOnce)

\* the repetition went through the 12 bytes of options of
\* parse_tcp_packet_with_options in 6 iterations and ended with a seventh
C22_Witness ==
  /\ Made("tcp_option")
  /\ input = OptExample
  /\ Len(calls) = 7
  /\ Last.arg = <<>>
  /\ ~IsSuccess(Last.out)

(***************************************************************************)
(* The grammar of ipv6_address                                             *)
(***************************************************************************)
\* the text a successful call consumed
ConsumedText(c) == Take(c.arg, Consumed(c))

\* positions of t where "::" starts
Compressions(t) ==
  {p \in 1..(Len(t) - 1) : t[p] = Chr(":") /\ t[p + 1] = Chr(":")}

\* the groups of 16 bits written in t[from..to]: one for each h16, two for a
\* dotted IPv4 address
GroupsIn(t, from, to) ==
  Cardinality({p \in from..to :
                 /\ IsHexDigit(t[p])
                 /\ p = from \/ t[p - 1] = Chr(":")})
    + (IF \E p \in from..to : t[p] = Chr(".") THEN 1 ELSE 0)

\* what is accepted begins with an h16 or with "::"
BeginsWithGroup ==
  \A i \in 1..Len(calls) :
    LET c == calls[i] IN
      (c.op = "ipv6_address" /\ IsSuccess(c.out))
      => (c.arg[1] = Chr(":") => c.arg[2] = Chr(":"))

\* with a "::", at most 7 groups are written around it
AtMostSevenGroups ==
  \A i \in 1..Len(calls) :
    LET c == calls[i] IN
      (c.op = "ipv6_address" /\ IsSuccess(c.out))
      => LET t == ConsumedText(c) IN
           \A p \in Compressions(t) :
             GroupsIn(t, 1, p - 1) + GroupsIn(t, p + 2, Len(t)) <= 7

\* C23: ipv6_address accepts exactly the language of the ABNF of its doc
\* comment: the part before "::" begins with an h16, so an input that begins
\* with a single ":" followed by a group is not accepted, and the groups
\* before and after "::" are at most 7 together.
C23_Ipv6Grammar ==
  /\ BeginsWithGroup
  /\ AtMostSevenGroups

(***************************************************************************)
(* h16                                                                     *)
(***************************************************************************)
\* the hex digits a text begins with
RECURSIVE LeadingHexDigits(_)
LeadingHexDigits(t) ==
  IF t # <<>> /\ IsHexDigit(Head(t)) THEN 1 + LeadingHexDigits(Tail(t)) ELSE 0

\* u16::from_str_radix(t, 16) of a text of hex digits
RECURSIVE from_str_radix_16(_)
from_str_radix_16(t) ==
  IF t = <<>> THEN 0
  ELSE from_str_radix_16(Take(t, Len(t) - 1)) * 16 + HexValue(t[Len(t)])

FragmentWord(arg) == arg[7] * 256 + arg[8]

\* C25: ipv4_header splits the 16-bit big-endian word w at bytes 6-7 as
\* flags = w >> 13 (0..7) and fragment_offset = w & 0x1FFF (0..8191), so
\* flags * 8192 + fragment_offset = w; the bytes 20 00 give flags 1 and
\* fragment_offset 0.
C25_FlagsAndFragmentOffset ==
  \A i \in 1..Len(calls) :
    LET c == calls[i] IN
      (c.op = "ipv4_header" /\ IsSuccess(c.out))
      => LET w == FragmentWord(c.arg)
             h == c.out.token
         IN /\ h.flags = w \div 8192
            /\ h.fragment_offset = w % 8192
            /\ h.flags \in 0..7
            /\ h.fragment_offset \in 0..8191
            /\ h.flags * 8192 + h.fragment_offset = w
            /\ (c.arg[7] = 32 /\ c.arg[8] = 0)
               => (h.flags = 1 /\ h.fragment_offset = 0)

\* a header whose word has all three flags and the largest offset was decoded
C25_Witness ==
  /\ Made("ipv4_header")
  /\ IsSuccess(First.out)
  /\ FragmentWord(First.arg) = 65535
  /\ First.out.token.flags = 7
  /\ First.out.token.fragment_offset = 8191

(***************************************************************************)
(* TcpFlags (tcp.rs): the position of each flag, the getters and setters   *)
(* on the raw 16-bit word, and the setter calls made on one TcpFlags       *)
(***************************************************************************)
MaxSetterCalls == 2

FlagNames ==
  {"reserved_0", "reserved_1", "reserved_2", "ns", "cwr", "ece", "urg", "ack",
   "psh", "rst", "syn", "fin"}

\* tcp_flags! { name => pos, }
FlagPos(name) ==
  CASE name = "reserved_0" -> 11
    [] name = "reserved_1" -> 10
    [] name = "reserved_2" -> 9
    [] name = "ns" -> 8
    [] name = "cwr" -> 7
    [] name = "ece" -> 6
    [] name = "urg" -> 5
    [] name = "ack" -> 4
    [] name = "psh" -> 3
    [] name = "rst" -> 2
    [] name = "syn" -> 1
    [] name = "fin" -> 0

\* 1 << pos and !x on u16
Shl1(pos) == 2 ^ pos

Not16(x) == 65535 - x

\* get_X: self.raw & 1 << pos != 0
get_flag(raw, pos) == BitAnd(raw, Shl1(pos)) # 0

\* a setter whose mask is not complemented when the flag is cleared
set_flag_mask_kept(raw, pos, state) ==
  [ret |-> state,
   raw |-> IF state THEN BitOr(raw, Shl1(pos)) ELSE BitAnd(raw, Shl1(pos))]

\* set_X: self.raw |= 1 << pos, or self.raw &= !(1 << pos); returns state
set_flag(raw, pos, state) ==
  [ret |-> state,
   raw |-> IF state THEN BitOr(raw, Shl1(pos))
           ELSE BitAnd(raw, Not16(Shl1(pos)))]

\* a setter without the test of n
set_data_offset_unchecked(raw, n) ==
  [ret |-> [ok |-> TRUE, value |-> n],
   raw |-> BitOr(BitAnd(raw, 65535 \div 16), (n * 4096) % 65536)]

\* set_data_offset: Ok(n) after raw &= u16::MAX >> 4 and raw |= (n as u16) << 12
\* when n > 4 && n < 16, Err(n) otherwise
set_data_offset(raw, n) ==
  IF n > 4 /\ n < 16
  THEN [ret |-> [ok |-> TRUE, value |-> n],
        raw |-> BitOr(BitAnd(raw, 65535 \div 16), (n * 4096) % 65536)]
  ELSE [ret |-> [ok |-> FALSE, value |-> n], raw |-> raw]

\* the two octets TcpFlags::from(u16) is built from, and the values given to
\* set_data_offset
FlagsHighOctets == {0, 80, 95, 255}

FlagsLowOctets == {24, 165}

DataOffsets == {0, 4, 5, 15, 16, 21}

\* the raw word of the TcpFlags before call i and now
RawBefore(i) == IF i = 1 THEN u16_from_be_bytes(input) ELSE calls[i - 1].out.raw

Raw == RawBefore(Len(calls) + 1)

\* TcpFlags::from(raw)
FlagsInit ==
  /\ input \in {<<hi, lo>> : hi \in FlagsHighOctets, lo \in FlagsLowOctets}
  /\ calls = <<>>

\* flags.set_X(state)
SetFlag ==
  /\ Len(calls) < MaxSetterCalls
  /\ \E name \in FlagNames, state \in BOOLEAN :
       Call("set_flag", [flag |-> name, state |-> state],
            set_flag(Raw, FlagPos(name), state))
  /\ UNCHANGED input

\* flags.set_data_offset(n)
SetDataOffset ==
  /\ Len(calls) < MaxSetterCalls
  /\ \E n \in DataOffsets :
       Call("set_data_offset", n, set_data_offset(Raw, n))
  /\ UNCHANGED input

FlagsNext ==
  \/ SetFlag
  \/ SetDataOffset

Flags == FlagsInit /\ [][FlagsNext]_vars

\* bit q of a 16-bit word
Bit(raw, q) == (raw \div (2 ^ q)) % 2

\* C26: for each of the 12 flags (reserved_0..fin at positions 11..0), after
\* any sequence of setter calls, set_X(b) returns b, makes get_X() = b, and
\* leaves every other flag and the data offset unchanged; get_X() reads
\* exactly bit X of the raw word.
C26_FlagSetters ==
  /\ \A name \in FlagNames :
       get_flag(Raw, FlagPos(name)) <=> Bit(Raw, FlagPos(name)) = 1
  /\ \A i \in 1..Len(calls) :
       LET c == calls[i] IN
         c.op = "set_flag"
         => /\ c.out.ret = c.arg.state
            /\ get_flag(c.out.raw, FlagPos(c.arg.flag)) = c.arg.state
            /\ \A other \in FlagNames \ {c.arg.flag} :
                 get_flag(c.out.raw, FlagPos(other))
                   = get_flag(RawBefore(i), FlagPos(other))
            /\ get_data_offset(c.out.raw) = get_data_offset(RawBefore(i))
            /\ \A q \in (0..15) \ {FlagPos(c.arg.flag)} :
                 Bit(c.out.raw, q) = Bit(RawBefore(i), q)
            /\ c.out.raw \in 0..65535

\* a flag that was set has been cleared by a second call, among other flags
\* that are set
C26_Witness ==
  /\ Len(calls) = 2
  /\ calls[1].op = "set_flag" /\ calls[1].arg = [flag |-> "ack", state |-> TRUE]
  /\ calls[2].op = "set_flag" /\ calls[2].arg = [flag |-> "ack", state |-> FALSE]
  /\ u16_from_be_bytes(input) = 24485
  /\ calls[1].out.raw = 24485 + 16
  /\ Raw = 24485


\* C27: set_data_offset(n) returns Ok(n) exactly when 4 < n < 16, and then
\* get_data_offset() = n with the 12 flag bits unchanged; for any other n it
\* returns Err(n) and leaves the raw word unchanged.  Hence after any
\* sequence of setter calls on a TcpFlags whose data offset is at least 5,
\* the data offset stays within 5..15.
C27_SetDataOffset ==
  /\ \A i \in 1..Len(calls) :
       LET c == calls[i] IN
         c.op = "set_data_offset"
         => /\ c.out.ret.ok <=> (c.arg > 4 /\ c.arg < 16)
            /\ c.out.ret.value = c.arg
            /\ c.out.ret.ok
               => /\ get_data_offset(c.out.raw) = c.arg
                  /\ c.out.raw % 4096 = RawBefore(i) % 4096
            /\ ~c.out.ret.ok => c.out.raw = RawBefore(i)
  /\ get_data_offset(u16_from_be_bytes(input)) >= 5
     => get_data_offset(Raw) \in 5..15

\* a data offset of 15 was set, then 16 was refused and 15 kept
C27_Witness ==
  /\ Len(calls) = 2
  /\ calls[1].op = "set_data_offset" /\ calls[1].arg = 15 /\ calls[1].out.ret.ok
  /\ calls[2].op = "set_data_offset" /\ calls[2].arg = 16 /\ ~calls[2].out.ret.ok
  /\ get_data_offset(u16_from_be_bytes(input)) = 5
  /\ get_data_offset(Raw) = 15

(***************************************************************************)
(* IPv4 options past the end of the buffer                                 *)
(***************************************************************************)
\* C28: when the first byte has version 4 and IHL h >= 6 and the buffer
\* holds fewer than h*4 bytes, ipv4_header reports an underrun Failure; it
\* never returns Success with an options span shorter than (h-5)*4 bytes.
C28_Ipv4OptionsUnderrun ==
  \A i \in 1..Len(calls) :
    LET c == calls[i] IN
      (c.op = "ipv4_header" /\ c.arg # <<>> /\ c.arg[1] \div 16 = 4
         /\ c.arg[1] % 16 >= 6)
      => /\ Len(c.arg) < (c.arg[1] % 16) * 4 => c.out.kind = "Failure"
         /\ IsSuccess(c.out)
            => Len(c.out.token.options) = ((c.arg[1] % 16) - 5) * 4

\* a header of IHL 15 on a buffer of 59 bytes, one short of its options, was
\* refused
C28_Witness ==
  /\ Made("ipv4_header")
  /\ Len(First.arg) = 59
  /\ First.arg[1] = 79
  /\ First.out.kind = "Failure"

(***************************************************************************)
(* Order of the checks of the first byte of the IPv4 header                *)
(***************************************************************************)
\* C29: ipv4_header checks the version before the IHL: with version # 4 and
\* IHL < 5 the error is Ipv4Atom::Version(version), never Ipv4Atom::IHL;
\* Ipv4Atom::IHL(ihl) is reported only when version = 4 and ihl < 5; both
\* checks happen before any later byte of the header is read.
C29_VersionBeforeIhl ==
  \A i \in 1..Len(calls) :
    LET c == calls[i] IN
      (c.op = "ipv4_header" /\ c.arg # <<>>)
      => LET version == c.arg[1] \div 16
             ihl == c.arg[1] % 16
         IN /\ version # 4
               => /\ ~IsSuccess(c.out)
                  /\ c.out.atom = Atom("Ipv4Atom::Version", version)
            /\ (version = 4 /\ ihl < 5)
               => /\ ~IsSuccess(c.out)
                  /\ c.out.atom = Atom("Ipv4Atom::IHL", ihl)
            /\ (~IsSuccess(c.out) /\ c.out.atom.tag = "Ipv4Atom::IHL")
               => (version = 4 /\ ihl < 5)

\* a single byte with version 6 and IHL 3 was given: the version is reported
C29_Witness ==
  /\ Made("ipv4_header")
  /\ First.arg = <<6 * 16 + 3>>
  /\ ~IsSuccess(First.out)
  /\ First.out.atom = Atom("Ipv4Atom::Version", 6)

(***************************************************************************)
(* Length octet and bytes consumed by one option                           *)
(***************************************************************************)
\* C30: an option that tcp_option decodes with a known code in
\* {2, 3, 4, 5, 8} consumes as many bytes as its length octet says (code
\* octet, length octet and payload); with an unknown code it consumes the
\* value of its length octet plus 2; the codes 0 and 1 consume 1 byte.
C30_LengthOctetAndConsumed ==
  \A i \in 1..Len(calls) :
    LET c == calls[i] IN
      (c.op = "tcp_option" /\ IsSuccess(c.out))
      => /\ c.out.stream = Drop(c.arg, Consumed(c))
         /\ c.arg[1] \in {0, 1} => Consumed(c) = 1
         /\ c.arg[1] \in {2, 3, 4, 5, 8} => Consumed(c) = c.arg[2]
         /\ c.arg[1] \notin KnownCodes => Consumed(c) = c.arg[2] + 2

\* a SACK option of length 18 was decoded from 18 bytes, then an unknown
\* option with length octet 2 from 4 bytes
C30_Witness ==
  /\ Len(calls) = 2
  /\ calls[1].op = "tcp_option" /\ calls[2].op = "tcp_option"
  /\ calls[1].arg[1] = 5 /\ calls[1].arg[2] = 18
  /\ IsSuccess(calls[1].out) /\ Consumed(calls[1]) = 18
  /\ calls[2].arg = <<9, 2, 7, 7>>
  /\ IsSuccess(calls[2].out) /\ Consumed(calls[2]) = 4

====
